---- MODULE Spec2Model ----
(***************************************************************************)
(* A model of github.com/botsandus/retryable: HttpClient.DoWithContext,    *)
(* its operation closure driven by backoff.Retry, the request metadata     *)
(* kept in the context, and the replayable request of NewRequest.          *)
(*                                                                         *)
(* Time is counted in ticks of 250ms, so that the backoff policy's initial *)
(* interval (500ms) and its jitter (factor 0.5) are whole numbers.         *)
(***************************************************************************)
EXTENDS Integers, Sequences, FiniteSets, TLC

\* ------------------------------------------------------------------ bounds

\* MaxRetries ranges over 0..MaxRetriesBound.
MaxRetriesBound == 2
\* MaxElapsedTime ranges over 0 (unbounded) and 1..MaxElapsedSeconds seconds.
MaxElapsedSeconds == 1
\* NewRequest is given payloads of 1..MaxPayloadLen bytes.
MaxPayloadLen == 2
\* One transport invocation takes 1..MaxRequestDuration ticks.
MaxRequestDuration == 2
\* DoWithContext is called at most MaxCalls times on one context.
MaxCalls == 2

\* ------------------------------------------------------------- constants

\* time.Second in ticks.
Second == 4
\* backoff.DefaultInitialInterval (500ms) in ticks.
InitialInterval == 2
\* backoff.DefaultMultiplier (1.5) as a fraction.
MultiplierNum == 3
MultiplierDen == 2
\* backoff.DefaultRandomizationFactor (0.5) as 1/RandomizationDen.
RandomizationDen == 2
default429RetrySeconds == 1

\* Contexts (one caller goroutine each). Calls on one context are sequential.
Calls == {1, 2}

\* The values an HttpClient's fields range over.
MaxRetriesValues == 0..MaxRetriesBound
MaxIntervalValues == {1, 30 * Second}
MaxElapsedTimeValues == {0} \cup {s * Second : s \in 1..MaxElapsedSeconds}

\* --------------------------------------------------------------- errors

NoMsg == <<>>
NilErr == [kind |-> "nil", permanent |-> FALSE, n |-> 0, msg |-> NoMsg]

\* MaxAttemptsReachedError{c: n}
MaxAttemptsReachedError(n) ==
    [kind |-> "MaxAttemptsReached", permanent |-> FALSE, n |-> n, msg |-> NoMsg]

\* errors.New(resp.Status)
StatusError(status) ==
    [kind |-> "status", permanent |-> FALSE, n |-> status, msg |-> NoMsg]

\* The error of http.Client.Do, with its message.
TransportError(msg) ==
    [kind |-> "transport", permanent |-> FALSE, n |-> 0, msg |-> msg]

\* The *strconv.NumError of strconv.ParseInt.
ParseError == [kind |-> "parse", permanent |-> FALSE, n |-> 0, msg |-> NoMsg]

\* ctx.Err() of a cancelled context.
Canceled == [kind |-> "canceled", permanent |-> FALSE, n |-> 0, msg |-> NoMsg]

\* backoff.RetryAfter(seconds): a RetryAfterError with Duration seconds * time.Second.
RetryAfter(seconds) ==
    [kind |-> "RetryAfter", permanent |-> FALSE, n |-> seconds * Second, msg |-> NoMsg]

\* backoff.Permanent(err): err wrapped in a PermanentError.
Permanent(err) == [err EXCEPT !.permanent = TRUE]

\* ----------------------------------------------------- transport outcomes

\* Messages of the errors http.Client.Do returns, as token sequences: net/http
\* wraps its message in the request's method and url.
redirectErrorString == "stopped after 10 redirects"
untrustedCertErrorString == "certificate is not trusted"
ErrorMessages ==
    { <<"Get", "url", redirectErrorString>>,
      <<"Get", "url", "x509", untrustedCertErrorString>>,
      <<"Get", "url", "connection reset by peer">> }

\* Retry-After header values, as character sequences; <<>> is the absent header.
RetryAfterHeaders ==
    { <<>>, <<"2">>, <<"a">>, <<"-", "1">> }

Statuses == {200, 302, 404, 429, 500}

NoHeader == <<>>
NoResponse == [status |-> 0, retryAfter |-> NoHeader]
Responses ==
    [status : Statuses \ {429}, retryAfter : {NoHeader}]
        \cup [status : {429}, retryAfter : RetryAfterHeaders]

\* What one h.Do(req) returns: a response and a nil error, or no response and an error.
TransportOutcomes ==
    [resp : Responses, err : {NilErr}]
        \cup [resp : {NoResponse}, err : {TransportError(m) : m \in ErrorMessages}]

\* regexp.MatchString of a literal pattern: the pattern occurs in the message.
MatchString(pattern, msg) == \E i \in 1..Len(msg) : msg[i] = pattern

\* strconv.ParseInt(s, 10, 64): an optional sign, then one or more decimal digits.
Digits == <<"0", "1", "2", "3", "4", "5", "6", "7", "8", "9">>
IsDigit(ch) == \E d \in 1..10 : Digits[d] = ch
DigitValue(ch) == (CHOOSE d \in 1..10 : Digits[d] = ch) - 1
RECURSIVE ParseDigits(_, _)
ParseDigits(s, acc) ==
    IF s = <<>> THEN acc
    ELSE ParseDigits(Tail(s), acc * 10 + DigitValue(Head(s)))
ParseInt(s) ==
    LET signed == s # <<>> /\ Head(s) \in {"-", "+"}
        body   == IF signed THEN Tail(s) ELSE s
        ok     == body # <<>> /\ \A i \in 1..Len(body) : IsDigit(body[i])
        val    == IF ok THEN ParseDigits(body, 0) ELSE 0
    IN  [ok |-> ok,
         val |-> IF signed /\ Head(s) = "-" THEN 0 - val ELSE val]

\* -------------------------------------------------------------- requests

\* Payloads handed to NewRequest: 1..n bytes, all different.
Payloads == {[i \in 1..n |-> i] : n \in 1..MaxPayloadLen}

\* http.NewRequest(method, url, nil): no body, no GetBody.
PlainRequest ==
    [Body |-> <<>>, ContentLength |-> 0, hasGetBody |-> FALSE, GetBody |-> <<>>]

\* NewRequest(method, url, body): the body is copied into buf, which becomes
\* the request's Body (a reader that is consumed as it is read), and GetBody
\* returns a new reader over the bytes bb of buf.
NewRequest(body) ==
    LET buf == body
        bb  == buf
    IN  [Body |-> buf, ContentLength |-> Len(buf), hasGetBody |-> TRUE,
         GetBody |-> bb]

\* net/http sending a request, as NewRequest's comment tells it: it reads the
\* request's Body, and when that read returns io.EOF at once it rewinds the
\* body (with GetBody).
Rewinds(request) ==
    request.Body = <<>> /\ request.ContentLength > 0 /\ request.hasGetBody
BodyToSend(request) ==
    IF Rewinds(request) THEN request.GetBody ELSE request.Body

\* The request after the transport has read n bytes of the body it sends: the
\* bytes read are gone from Body, unless they came from a rewound reader.
AfterSend(request, n) ==
    IF Rewinds(request) THEN request
    ELSE [request EXCEPT !.Body = SubSeq(@, n + 1, Len(@))]

\* ------------------------------------------------------------- metadata

\* new(requestMetadata)
NewMetadata == [requests |-> 0, successfulDuration |-> 0]
\* ctx.Value(key) of a context that holds no metadata.
NoValue == [requests |-> -1, successfulDuration |-> -1]

\* Mutant of getRequestMetadata: the type assertion's ok is not looked at.
getRequestMetadataUnchecked(value) ==
    [ptr |-> value, ok |-> TRUE]

\* getRequestMetadata: the metadata of the context and whether there is one.
getRequestMetadata(value) ==
    [ptr |-> value, ok |-> value # NoValue]

NumberOfAttemptsFromContext(value) ==
    LET md == getRequestMetadata(value)
    IN  IF ~md.ok THEN [v |-> 0, ok |-> FALSE]
        ELSE [v |-> md.ptr.requests, ok |-> TRUE]

SuccessfulRequestDurationFromContext(value) ==
    LET md == getRequestMetadata(value)
    IN  IF ~md.ok THEN [v |-> 0, ok |-> FALSE]
        ELSE [v |-> md.ptr.successfulDuration, ok |-> TRUE]


\* Mutant of ResetRequests: the count of the call before is kept.
ResetRequestsSkipped(md) == md

\* DoWithContext's "metadata.requests = 0".
ResetRequests(md) == [md EXCEPT !.requests = 0]

\* ------------------------------------------------------- the operation

\* Mutant of AttemptsUsedUp: the budget is found used up one request later.
AttemptsUsedUpLate(requests, maxRetries) == requests > maxRetries + 1

\* The operation closure's test "we've used up all of our request attempts".
AttemptsUsedUp(requests, maxRetries) == requests >= maxRetries + 1

\* The error branch of the operation: redirect loops and untrusted certificates
\* are permanent, any other error of h.Do is returned as it is.
ClassifyError(err) ==
    IF MatchString(redirectErrorString, err.msg)
         \/ MatchString(untrustedCertErrorString, err.msg)
    THEN [resp |-> NoResponse, err |-> Permanent(err)]
    ELSE [resp |-> NoResponse, err |-> err]

\* Mutant of ClassifyRateLimited: a Retry-After that does not parse stops the
\* call (the parse error is made permanent).
ClassifyRateLimitedParseStops(resp) ==
    IF resp.retryAfter = NoHeader
    THEN [resp |-> NoResponse, err |-> RetryAfter(default429RetrySeconds)]
    ELSE LET parsed == ParseInt(resp.retryAfter)
         IN  IF ~parsed.ok
             THEN [resp |-> NoResponse, err |-> Permanent(ParseError)]
             ELSE [resp |-> NoResponse, err |-> RetryAfter(parsed.val)]

\* The 429 branch of the operation.
ClassifyRateLimited(resp) ==
    IF resp.retryAfter = NoHeader
    THEN [resp |-> NoResponse, err |-> RetryAfter(default429RetrySeconds)]
    ELSE LET parsed == ParseInt(resp.retryAfter)
         IN  IF ~parsed.ok
             THEN [resp |-> NoResponse, err |-> ParseError]
             ELSE [resp |-> NoResponse, err |-> RetryAfter(parsed.val)]

\* Mutant of ClassifyStatus: a 4xx status is returned as a plain error, as the
\* other non-2xx statuses are.
ClassifyStatusRetries4xx(resp) ==
    IF resp.status \div 100 # 2
    THEN [resp |-> resp, err |-> StatusError(resp.status)]
    ELSE [resp |-> resp, err |-> NilErr]

\* Mutant of ClassifyStatus: the response of a failed request is dropped, as
\* the 429 branch drops it.
ClassifyStatusDropsResponse(resp) ==
    IF resp.status \div 100 = 4
    THEN [resp |-> NoResponse, err |-> Permanent(StatusError(resp.status))]
    ELSE IF resp.status \div 100 # 2
    THEN [resp |-> NoResponse, err |-> StatusError(resp.status)]
    ELSE [resp |-> resp, err |-> NilErr]

\* The status branches of the operation, for a response that is not a 429.
ClassifyStatus(resp) ==
    IF resp.status \div 100 = 4
    THEN [resp |-> resp, err |-> Permanent(StatusError(resp.status))]
    ELSE IF resp.status \div 100 # 2
    THEN [resp |-> resp, err |-> StatusError(resp.status)]
    ELSE [resp |-> resp, err |-> NilErr]

\* What the operation returns for what h.Do(req) returned.
Classify(out) ==
    IF out.err # NilErr THEN ClassifyError(out.err)
    ELSE IF out.resp.status = 429 THEN ClassifyRateLimited(out.resp)
    ELSE ClassifyStatus(out.resp)

\* ------------------------------------------------------- backoff.Retry

\* errors.As(err, &permanent)
IsPermanent(err) == err.permanent
\* Mutant of IsRetryAfter: Retry finds no RetryAfterError in the error.
IsRetryAfterNever(err) == FALSE

\* errors.As(err, &retryAfter)
IsRetryAfter(err) == err.kind = "RetryAfter"

\* ExponentialBackOff.NextBackOff: a random value within the randomization
\* factor of the current interval.
NextBackOffValues(currentInterval) ==
    LET delta == currentInterval \div RandomizationDen
    IN  (currentInterval - delta)..(currentInterval + delta)

\* ExponentialBackOff.incrementCurrentInterval with MaxInterval = h.MaxInterval.
IncrementCurrentInterval(currentInterval, maxInterval) ==
    IF currentInterval * MultiplierNum >= maxInterval * MultiplierDen
    THEN maxInterval
    ELSE (currentInterval * MultiplierNum) \div MultiplierDen

\* Mutant of CtxErr: Retry does not look at the context after a failed operation.
CtxErrIgnored(isCancelled) == FALSE

\* Mutant of TimerWins: the wait is a sleep that does not watch ctx.Done().
TimerWinsAlways(isCancelled, duration) == TRUE

\* Mutant of TimerWins: the timer never fires.
TimerWinsNever(isCancelled, duration) == FALSE

\* Retry's test "context is cancelled" after a failed operation: ctx.Err() != nil.
CtxErr(isCancelled) == isCancelled

\* Retry's select on the timer and ctx.Done(): the timer's case is taken while
\* the context is not done; a timer started with a duration that is not
\* positive is ready at once, and select then takes either ready case.
TimerWins(isCancelled, duration) == ~isCancelled \/ duration <= 0

\* Mutant of BackOffOf: one policy instance is shared by the calls of a client.
BackOffShared(c) == CHOOSE d \in Calls : \A e \in Calls : d <= e

\* "Create a backoff per request": the policy instance call c works with is
\* the one it made, bo of its own DoWithContext.
BackOffOf(c) == c

\* Retry's test "maximum elapsed time exceeded" (WithMaxElapsedTime(h.MaxElapsedTime)).
ElapsedTimeExceeded(maxElapsedTime, sinceStart, next) ==
    maxElapsedTime > 0 /\ sinceStart + next > maxElapsedTime

\* Mutant of ElapsedTimeError: a distinct error stands in for the operation's.
ElapsedTimeErrorDistinct(err) ==
    [kind |-> "ElapsedTimeExceeded", permanent |-> FALSE, n |-> 0, msg |-> NoMsg]

\* What Retry returns when the maximum elapsed time is exceeded: the error of
\* the last operation, as it is.
ElapsedTimeError(err) == err

\* ---------------------------------------------------------------- state

VARIABLES
    client,       \* the HttpClient: MaxRetries, MaxInterval, MaxElapsedTime
    ctxValue,     \* per context: the metadata stored under the key, or NoValue
    cancelled,    \* per context: ctx.Done() is closed
    pc,           \* per context: where its DoWithContext call stands
    metaInCtx,    \* the call's metadata pointer is the context's (else a throwaway)
    local,        \* the throwaway metadata of a call on a plain context
    bo,           \* the call's ExponentialBackOff.currentInterval
    elapsed,      \* time.Since(startedAt) of the call
    timer,        \* the duration the call's timer was started with
    res,          \* Retry's res: the response the last operation returned
    retResp,      \* the response DoWithContext returned
    retErr,       \* the error DoWithContext returned
    invocations,  \* history: h.Do invocations made by the call
    nTransient,   \* history: invocations of the call that failed transiently
    lastOut,      \* history: what the last h.Do returned
    lastDur,      \* history: the duration of the last h.Do
    cancelledAt,  \* history: where the call stood when its context was cancelled
    waits,        \* history: the waits the call has begun
    waitKind,     \* history: what set the length of the last wait
    waitBegan,    \* history: elapsed when the last wait began
    ncalls,       \* history: DoWithContext calls begun on the context
    req,          \* per context: the *http.Request its calls are given
    payload,      \* history: the bytes the request was built from
    offered       \* history: the body the last h.Do(req) found to send

vars == <<client, ctxValue, cancelled, pc, metaInCtx, local, bo, elapsed, timer,
          res, retResp, retErr, invocations, nTransient, lastOut, lastDur,
          cancelledAt, waits, waitKind, waitBegan, ncalls, req, payload, offered>>

NoOutcome == [resp |-> NoResponse, err |-> NilErr]

\* The metadata the operation closure of call c points to.
Metadata(c) == IF metaInCtx[c] THEN ctxValue[c] ELSE local[c]

\* History only: the invocation failed transiently, by a transport error that
\* is not permanent or by a status that is neither 2xx nor 4xx.
TransientFailure(out) ==
    LET err == Classify(out).err
    IN  err.kind \in {"transport", "status"} /\ ~IsPermanent(err)

InitCommon ==
    /\ client \in [MaxRetries : MaxRetriesValues,
                   MaxInterval : MaxIntervalValues,
                   MaxElapsedTime : MaxElapsedTimeValues]
    \* context 1 is plain (context.Background) or from NewContext; context 2 is
    \* from NewContext
    /\ ctxValue \in {[c \in Calls |-> IF c = 1 THEN v ELSE NewMetadata] :
                        v \in {NoValue, NewMetadata}}
    /\ cancelled = [c \in Calls |-> FALSE]
    /\ pc = [c \in Calls |-> "idle"]
    /\ metaInCtx = [c \in Calls |-> FALSE]
    /\ local = [c \in Calls |-> NewMetadata]
    /\ bo = [c \in Calls |-> InitialInterval]
    /\ elapsed = [c \in Calls |-> 0]
    /\ timer = [c \in Calls |-> 0]
    /\ res = [c \in Calls |-> NoResponse]
    /\ retResp = [c \in Calls |-> NoResponse]
    /\ retErr = [c \in Calls |-> NilErr]
    /\ invocations = [c \in Calls |-> 0]
    /\ nTransient = [c \in Calls |-> 0]
    /\ lastOut = [c \in Calls |-> NoOutcome]
    /\ lastDur = [c \in Calls |-> 0]
    /\ cancelledAt = [c \in Calls |-> "none"]
    /\ waits = [c \in Calls |-> 0]
    /\ waitKind = [c \in Calls |-> "none"]
    /\ waitBegan = [c \in Calls |-> 0]
    /\ ncalls = [c \in Calls |-> 0]
    /\ offered = [c \in Calls |-> <<>>]

\* Every call is given a request made by http.NewRequest with no body.
Init ==
    /\ InitCommon
    /\ payload = [c \in Calls |-> <<>>]
    /\ req = [c \in Calls |-> PlainRequest]

\* Every call is given a request made by NewRequest from a payload.
InitBody ==
    /\ InitCommon
    /\ \E body \in Payloads :
         /\ payload = [c \in Calls |-> body]
         /\ req = [c \in Calls |-> NewRequest(body)]

\* -------------------------------------------------------------- actions

\* Retry returns: DoWithContext returns (resp, err) to its caller.
Return(c, resp, err) ==
    /\ pc' = [pc EXCEPT ![c] = "done"]
    /\ retResp' = [retResp EXCEPT ![c] = resp]
    /\ retErr' = [retErr EXCEPT ![c] = err]

\* What Retry does with an operation that returned (r.resp, r.err), r.err not nil,
\* at time sinceStart after the call began: return, or start the timer and wait.
RetryOnError(c, r, sinceStart) ==
    /\ res' = [res EXCEPT ![c] = r.resp]
    /\ IF IsPermanent(r.err)
       THEN /\ Return(c, r.resp, r.err)
            /\ UNCHANGED <<bo, timer, waits, waitKind, waitBegan>>
       ELSE IF CtxErr(cancelled[c])
       THEN /\ Return(c, r.resp, Canceled)
            /\ UNCHANGED <<bo, timer, waits, waitKind, waitBegan>>
       ELSE \E backoffDelay \in NextBackOffValues(bo[BackOffOf(c)]) :
              LET next == IF IsRetryAfter(r.err) THEN r.err.n ELSE backoffDelay
              IN  /\ bo' = [bo EXCEPT ![BackOffOf(c)] =
                               IF IsRetryAfter(r.err) THEN InitialInterval
                               ELSE IncrementCurrentInterval(@, client.MaxInterval)]
                  /\ IF ElapsedTimeExceeded(client.MaxElapsedTime, sinceStart, next)
                     THEN /\ Return(c, r.resp, ElapsedTimeError(r.err))
                          /\ UNCHANGED <<timer, waits, waitKind, waitBegan>>
                     ELSE /\ timer' = [timer EXCEPT ![c] = next]
                          /\ waits' = [waits EXCEPT ![c] = @ + 1]
                          /\ waitKind' = [waitKind EXCEPT ![c] =
                                 IF IsRetryAfter(r.err) THEN "retryAfter" ELSE "backoff"]
                          /\ waitBegan' = [waitBegan EXCEPT ![c] = sinceStart]
                          /\ pc' = [pc EXCEPT ![c] = "waiting"]
                          /\ UNCHANGED <<retResp, retErr>>

\* The metadata DoWithContext resolves for a context holding `value`.
ResolveInCtx(value) == getRequestMetadata(value).ok

\* DoWithContext up to the call of backoff.Retry: a fresh backoff policy, the
\* metadata of the context or a throwaway one, its request count set to 0; then
\* Retry's startedAt and Reset.
DoWithContext(c) ==
    /\ pc[c] \in {"idle", "done"}
    /\ ncalls[c] < MaxCalls
    /\ ncalls' = [ncalls EXCEPT ![c] = @ + 1]
    /\ metaInCtx' = [metaInCtx EXCEPT ![c] = ResolveInCtx(ctxValue[c])]
    /\ IF ResolveInCtx(ctxValue[c])
       THEN /\ ctxValue' = [ctxValue EXCEPT ![c] = ResetRequests(@)]
            /\ UNCHANGED local
       ELSE /\ local' = [local EXCEPT ![c] = ResetRequests(NewMetadata)]
            /\ UNCHANGED ctxValue
    /\ bo' = [bo EXCEPT ![BackOffOf(c)] = InitialInterval]
    /\ elapsed' = [elapsed EXCEPT ![c] = 0]
    /\ timer' = [timer EXCEPT ![c] = 0]
    /\ res' = [res EXCEPT ![c] = NoResponse]
    /\ retResp' = [retResp EXCEPT ![c] = NoResponse]
    /\ retErr' = [retErr EXCEPT ![c] = NilErr]
    /\ invocations' = [invocations EXCEPT ![c] = 0]
    /\ nTransient' = [nTransient EXCEPT ![c] = 0]
    /\ lastOut' = [lastOut EXCEPT ![c] = NoOutcome]
    /\ lastDur' = [lastDur EXCEPT ![c] = 0]
    /\ waits' = [waits EXCEPT ![c] = 0]
    /\ waitKind' = [waitKind EXCEPT ![c] = "none"]
    /\ waitBegan' = [waitBegan EXCEPT ![c] = 0]
    /\ cancelledAt' = [cancelledAt EXCEPT ![c] =
                          IF cancelled[c] THEN "before" ELSE "none"]
    /\ offered' = [offered EXCEPT ![c] = <<>>]
    /\ pc' = [pc EXCEPT ![c] = "operation"]
    /\ UNCHANGED <<client, cancelled, req, payload>>

\* The metadata of call c with its request count incremented.
SetMetadata(c, md) ==
    IF metaInCtx[c]
    THEN /\ ctxValue' = [ctxValue EXCEPT ![c] = md]
         /\ UNCHANGED local
    ELSE /\ local' = [local EXCEPT ![c] = md]
         /\ UNCHANGED ctxValue

\* Retry calls the operation: it counts the request and either gives up with
\* MaxAttemptsReachedError or calls h.Do(req).
Operation(c) ==
    /\ pc[c] = "operation"
    /\ LET md == [Metadata(c) EXCEPT !.requests = @ + 1]
       IN  /\ SetMetadata(c, md)
           /\ IF AttemptsUsedUp(md.requests, client.MaxRetries)
              THEN /\ RetryOnError(c,
                         [resp |-> NoResponse,
                          err |-> Permanent(MaxAttemptsReachedError(client.MaxRetries + 1))],
                         elapsed[c])
                   /\ UNCHANGED <<invocations, offered>>
              ELSE /\ pc' = [pc EXCEPT ![c] = "transport"]
                   /\ invocations' = [invocations EXCEPT ![c] = @ + 1]
                   /\ offered' = [offered EXCEPT ![c] = BodyToSend(req[c])]
                   /\ UNCHANGED <<res, retResp, retErr, bo, timer, waits, waitKind, waitBegan>>
    /\ UNCHANGED <<client, cancelled, metaInCtx, elapsed, nTransient, lastOut,
                   lastDur, cancelledAt, ncalls, req, payload>>

\* h.Do(req) returns after requestDuration; the operation classifies what it
\* returned and Retry acts on the operation's result.
TransportReturns(c) ==
    /\ pc[c] = "transport"
    /\ \E out \in TransportOutcomes, requestDuration \in 1..MaxRequestDuration,
          n \in 0..Len(BodyToSend(req[c])) :
         LET r == Classify(out)
             sinceStart == elapsed[c] + requestDuration
         IN  \* a response comes once the whole body is read; an error of h.Do
             \* can come at any point of the upload
             /\ out.err = NilErr => n = Len(BodyToSend(req[c]))
             /\ req' = [req EXCEPT ![c] = AfterSend(@, n)]
             /\ lastOut' = [lastOut EXCEPT ![c] = out]
             /\ lastDur' = [lastDur EXCEPT ![c] = requestDuration]
             /\ elapsed' = [elapsed EXCEPT ![c] = sinceStart]
             /\ nTransient' = [nTransient EXCEPT ![c] =
                                  IF TransientFailure(out) THEN @ + 1 ELSE @]
             /\ IF r.err = NilErr
                THEN /\ SetMetadata(c, [Metadata(c) EXCEPT
                                           !.successfulDuration = requestDuration])
                     /\ res' = [res EXCEPT ![c] = r.resp]
                     /\ Return(c, r.resp, NilErr)
                     /\ UNCHANGED <<bo, timer, waits, waitKind, waitBegan>>
                ELSE /\ RetryOnError(c, r, sinceStart)
                     /\ UNCHANGED <<ctxValue, local>>
    /\ UNCHANGED <<client, cancelled, metaInCtx, invocations, cancelledAt, ncalls,
                   payload, offered>>

\* The timer fires before the context is done: Retry calls the operation again.
TimerFires(c) ==
    /\ pc[c] = "waiting"
    /\ TimerWins(cancelled[c], timer[c])
    /\ elapsed' = [elapsed EXCEPT ![c] = @ + (IF timer[c] > 0 THEN timer[c] ELSE 0)]
    /\ pc' = [pc EXCEPT ![c] = "operation"]
    /\ UNCHANGED <<client, ctxValue, cancelled, metaInCtx, local, bo, timer, res,
                   retResp, retErr, invocations, nTransient, lastOut, lastDur,
                   cancelledAt, waits, waitKind, waitBegan, ncalls, req, payload, offered>>

\* The context is done before the timer fires: Retry returns ctx.Err().
CtxDone(c) ==
    /\ pc[c] = "waiting"
    /\ cancelled[c]
    /\ \E waited \in 0..(IF timer[c] > 0 THEN timer[c] - 1 ELSE 0) :
         elapsed' = [elapsed EXCEPT ![c] = @ + waited]
    /\ Return(c, res[c], Canceled)
    /\ UNCHANGED <<client, ctxValue, cancelled, metaInCtx, local, bo, timer, res,
                   invocations, nTransient, lastOut, lastDur, cancelledAt, waits, waitKind, waitBegan,
                   ncalls, req, payload, offered>>

\* The caller cancels the context of call c.
Cancel(c) ==
    /\ ~cancelled[c]
    /\ pc[c] # "idle"
    /\ cancelled' = [cancelled EXCEPT ![c] = TRUE]
    /\ cancelledAt' = [cancelledAt EXCEPT ![c] = pc[c]]
    /\ UNCHANGED <<client, ctxValue, pc, metaInCtx, local, bo, elapsed, timer, res,
                   retResp, retErr, invocations, nTransient, lastOut, lastDur,
                   waits, waitKind, waitBegan, ncalls, req, payload, offered>>

\* One step of the caller that owns context c.
Step(c) ==
    \/ DoWithContext(c)
    \/ Operation(c)
    \/ TransportReturns(c)
    \/ TimerFires(c)
    \/ CtxDone(c)
    \/ Cancel(c)

\* One caller: every DoWithContext call is made on context 1, one after another.
Callers == {1}

Next == \E c \in Callers : Step(c)

Spec == Init /\ [][Next]_vars

\* The same calls, on a request made by NewRequest.
SpecBody == InitBody /\ [][Next]_vars

\* A client with MaxElapsedTime = 0: no bound on the time a call takes.
InitUnbounded == Init /\ client.MaxElapsedTime = 0

\* The scheduling of one call: the goroutine in Retry runs on, so the operation
\* it is about to call is called; h.Do returns; and a wait ends, by its timer
\* or by the context.
Fairness(c) ==
    /\ WF_vars(Operation(c))
    /\ WF_vars(TransportReturns(c))
    /\ WF_vars(TimerFires(c) \/ CtxDone(c))

\* One call of the caller, with or without a cancellation of its context.
StepLive(c) ==
    \/ DoWithContext(c) /\ ncalls[c] = 0
    \/ Operation(c)
    \/ TransportReturns(c)
    \/ TimerFires(c)
    \/ CtxDone(c)
    \/ Cancel(c)

NextLive == \E c \in Callers : StepLive(c)

SpecLive == InitUnbounded /\ [][NextLive]_vars /\ \A c \in Callers : Fairness(c)

\* The MaxRetries of the client in TestHttpClient_DoWithContext.
TestMaxRetries == 1

\* Two goroutines, each with its own context from NewContext and its own
\* request, call DoWithContext once on one client, at the same time. The
\* client is set up as the tests set it up: few retries, a short MaxInterval.
InitShared ==
    /\ Init
    /\ ctxValue = [c \in Calls |-> NewMetadata]
    /\ client.MaxRetries <= TestMaxRetries
    /\ client.MaxInterval <= Second

StepShared(c) ==
    \/ DoWithContext(c) /\ ncalls[c] = 0
    \/ Operation(c)
    \/ TransportReturns(c)
    \/ TimerFires(c)
    \/ CtxDone(c)
    \/ Cancel(c)

NextShared == \E c \in Calls : StepShared(c)

SpecShared == InitShared /\ [][NextShared]_vars

\* =============================================================== claims

\* The call on context c has returned.
Returned(c) == pc[c] = "done"
\* The context was not cancelled before or during its current call.
NotCancelledDuring(c) == cancelledAt[c] \in {"none", "done"}
\* Every invocation of the call so far failed transiently.
AllTransient(c) == nTransient[c] = invocations[c]
\* The last invocation returned a 2xx response.
LastWas2xx(c) == lastOut[c].err = NilErr /\ lastOut[c].resp.status \div 100 = 2
\* The last invocation returned a 4xx response other than 429.
LastWasClientError(c) ==
    /\ lastOut[c].err = NilErr
    /\ lastOut[c].resp.status \div 100 = 4
    /\ lastOut[c].resp.status # 429
\* The last invocation failed with a redirect-loop or untrusted-certificate error.
LastWasPermanentTransportError(c) ==
    /\ lastOut[c].err # NilErr
    /\ \/ MatchString(redirectErrorString, lastOut[c].err.msg)
       \/ MatchString(untrustedCertErrorString, lastOut[c].err.msg)
\* The last invocation returned a 429 whose Retry-After is present and is no integer.
LastWasMalformed429(c) ==
    /\ lastOut[c].err = NilErr
    /\ lastOut[c].resp.status = 429
    /\ lastOut[c].resp.retryAfter # NoHeader
    /\ ~ParseInt(lastOut[c].resp.retryAfter).ok

\* C1 (as claimed): with maxElapsedTime = 0 and no cancellation, a call whose
\* every transport invocation failed transiently returns MaxAttemptsReached
\* only after exactly maxRetries + 1 invocations of the transport.
C1_ExactlyRPlusOneInvocations ==
    \A c \in Calls :
        (Returned(c) /\ client.MaxElapsedTime = 0 /\ NotCancelledDuring(c)
            /\ AllTransient(c))
        => /\ retErr[c].kind = "MaxAttemptsReached"
           /\ invocations[c] = client.MaxRetries + 1

\* C2 (as claimed): with maxElapsedTime = 0 and no cancellation, after k <= maxRetries
\* transient failures the call goes on to invocation k+1, and when that one
\* returns 2xx the call returns that response with no error, the attempts
\* counter reads k+1 and successDuration is the duration of invocation k+1.
C2_SuccessOnAttemptKPlus1 ==
    \A c \in Calls :
        (Returned(c) /\ client.MaxElapsedTime = 0 /\ NotCancelledDuring(c))
        => /\ AllTransient(c) => invocations[c] > client.MaxRetries
           /\ (LastWas2xx(c) /\ nTransient[c] = invocations[c] - 1)
                => /\ retErr[c] = NilErr
                   /\ retResp[c] = lastOut[c].resp
                   /\ Metadata(c).requests = invocations[c]
                   /\ Metadata(c).successfulDuration = lastDur[c]

\* C3 (as claimed): for every maxRetries, 0 included, a call makes its first
\* invocation, and when that fails with a redirect-loop or untrusted-certificate
\* error the call has made exactly 1 attempt and returns that error.
C3_PermanentTransportErrorOneAttempt ==
    \A c \in Calls :
        /\ Returned(c) => invocations[c] >= 1
        /\ (LastWasPermanentTransportError(c) /\ invocations[c] = 1)
             => /\ Returned(c)
                /\ Metadata(c).requests = 1
                /\ retErr[c].kind = "transport"
                /\ retErr[c].msg = lastOut[c].err.msg

\* C4: whenever the last transport invocation returned a 4xx other than 429,
\* the call has returned (so it invokes the transport no more), with a permanent
\* error and with that same response, not nil.
C4_ClientErrorIsFinal ==
    \A c \in Calls :
        LastWasClientError(c)
        => /\ Returned(c)
           /\ retResp[c] = lastOut[c].resp
           /\ retResp[c] # NoResponse
           /\ IsPermanent(retErr[c])
           /\ retErr[c].kind = "status"
           /\ retErr[c].n = lastOut[c].resp.status
           /\ Metadata(c).requests = invocations[c]

\* C4's case: a 404 answers the second invocation of a call.
C4_Witness ==
    \E c \in Calls :
        /\ Returned(c)
        /\ LastWasClientError(c)
        /\ invocations[c] = 2

\* C5 (as claimed): when the last invocation returned a 429 with a Retry-After
\* that is no integer, the call has returned the parse error (and so makes no
\* further invocation).
C5_MalformedRetryAfterStops ==
    \A c \in Calls :
        LastWasMalformed429(c) => (Returned(c) /\ retErr[c] = ParseError)

\* C5 (amended): a 429 with a Retry-After that is no integer is handled as a
\* transient failure: the wait that follows is a backoff wait, the call goes
\* on to the next operation, and it returns the parse error only when the
\* elapsed-time bound (maxElapsedTime > 0) ends the loop; with maxElapsedTime = 0
\* and no cancellation it ends with MaxAttemptsReached.
C5_MalformedRetryAfterIsRetried ==
    \A c \in Calls :
        LastWasMalformed429(c)
        => /\ pc[c] = "waiting" => waitKind[c] = "backoff"
           /\ Returned(c)
                => \/ retErr[c] = Canceled /\ cancelled[c]
                   \/ retErr[c] = ParseError /\ client.MaxElapsedTime > 0
                   \/ /\ retErr[c].kind = "MaxAttemptsReached"
                      /\ Metadata(c).requests = invocations[c] + 1
           /\ (Returned(c) /\ client.MaxElapsedTime = 0 /\ NotCancelledDuring(c))
                => retErr[c].kind = "MaxAttemptsReached"

\* C5's case: after a 429 with a malformed Retry-After the transport is being
\* invoked again.
C5_Witness ==
    \E c \in Calls :
        /\ LastWasMalformed429(c)
        /\ pc[c] = "transport"
        /\ invocations[c] = 2

\* C6 (as claimed): with maxRetries = 0 and maxElapsedTime > 0, a call whose
\* every invocation failed transiently has invoked the transport and has
\* recorded at least 2 attempts when it gives up.
C6_ZeroRetriesStillBoundedByElapsedTime ==
    \A c \in Calls :
        (Returned(c) /\ client.MaxRetries = 0 /\ client.MaxElapsedTime > 0
            /\ NotCancelledDuring(c) /\ AllTransient(c))
        => /\ invocations[c] >= 1
           /\ Metadata(c).requests >= 2

\* C8: a context that holds no metadata never gets any: before and after every
\* step of DoWithContext both accessors report it absent, and the call counts
\* its requests in a throwaway instance.
C8_PlainContextStaysPlain ==
    [][\A c \in Calls :
          ctxValue[c] = NoValue
          => /\ ~NumberOfAttemptsFromContext(ctxValue[c]).ok
             /\ ~SuccessfulRequestDurationFromContext(ctxValue[c]).ok
             /\ ctxValue'[c] = NoValue
             /\ ~NumberOfAttemptsFromContext(ctxValue'[c]).ok
             /\ ~SuccessfulRequestDurationFromContext(ctxValue'[c]).ok
             /\ pc'[c] = "transport" => local'[c].requests = invocations'[c]]_vars

\* C8's case: two calls on a plain context have returned, the second one a
\* success after a retry.
C8_Witness ==
    \E c \in Calls :
        /\ ctxValue[c] = NoValue
        /\ ncalls[c] = 2
        /\ Returned(c)
        /\ retErr[c] = NilErr
        /\ local[c].requests = 2

\* C9: once the context is cancelled during a wait (a wait that has a length:
\* its timer was started with a positive duration), the call invokes the
\* transport no more (it is waiting or has returned, each invocation so far was
\* followed by a wait), the metadata keeps the attempts made, and the call
\* returns the cancellation error before the timer would have fired.
C9_CancelDuringWait ==
    \A c \in Calls :
        (cancelledAt[c] = "waiting" /\ timer[c] > 0)
        => /\ pc[c] \in {"waiting", "done"}
           /\ invocations[c] = waits[c]
           /\ Metadata(c).requests = invocations[c]
           /\ Returned(c)
                => /\ retErr[c] = Canceled
                   /\ retResp[c] = res[c]
                   /\ elapsed[c] - waitBegan[c] < timer[c]

\* C9's case: a call cancelled during the rate-limit wait after its second
\* invocation has returned.
C9_Witness ==
    \E c \in Calls :
        /\ cancelledAt[c] = "waiting"
        /\ Returned(c)
        /\ waitKind[c] = "retryAfter"
        /\ invocations[c] = 2

\* The call has returned from an invocation of the transport that was made, or
\* was under way, when its context was cancelled.
ReturnedFromInvocationAfterCancel(c) ==
    /\ Returned(c)
    /\ \/ cancelledAt[c] = "transport"
       \/ /\ cancelledAt[c] \in {"before", "operation"}
          /\ retErr[c].kind # "MaxAttemptsReached"

\* C10 (as claimed): a call whose context was cancelled before or during a
\* transport invocation returns the cancellation error, whatever the invocation
\* returned.
C10_CancelMidAttemptAlwaysCancels ==
    \A c \in Calls :
        ReturnedFromInvocationAfterCancel(c) => retErr[c] = Canceled

\* C10 (amended): after a cancellation before or during a transport invocation
\* the call begins no wait and makes no further invocation; it returns the
\* cancellation error when the invocation returned a retryable failure, Success
\* with the invocation's duration recorded when it returned 2xx, and the
\* permanent error when it returned a permanent failure.
C10_CancelMidAttemptOutcome ==
    \A c \in Calls :
        /\ (cancelled[c] /\ pc[c] = "waiting") => cancelledAt[c] = "waiting"
        /\ ReturnedFromInvocationAfterCancel(c)
             => IF LastWas2xx(c)
                THEN /\ retErr[c] = NilErr
                     /\ retResp[c] = lastOut[c].resp
                     /\ Metadata(c).successfulDuration = lastDur[c]
                ELSE IF LastWasClientError(c)
                THEN /\ retErr[c].kind = "status"
                     /\ retResp[c] = lastOut[c].resp
                ELSE IF LastWasPermanentTransportError(c)
                THEN /\ retErr[c].kind = "transport"
                     /\ retResp[c] = NoResponse
                ELSE retErr[c] = Canceled

\* C10's case: the context is cancelled during an invocation that then returns
\* 2xx, and the call returns Success.
C10_Witness ==
    \E c \in Calls :
        /\ Returned(c)
        /\ cancelledAt[c] = "transport"
        /\ LastWas2xx(c)
        /\ retErr[c] = NilErr
        /\ Metadata(c).successfulDuration > 0

\* C7 (as claimed): at every invocation of one call (the first the request is
\* given to) on a request built by NewRequest from payload P, the body the
\* transport finds to send is P, byte for byte: never an empty or a partly
\* consumed body.
C7_EveryAttemptSendsPayload ==
    \A c \in Calls :
        (ncalls[c] = 1 /\ invocations[c] >= 1) => offered[c] = payload[c]

\* The call has returned the error of its last operation, an error that is
\* neither permanent nor the context's: Retry's elapsed-time test ended the loop.
EndedByElapsedTime(c) ==
    /\ Returned(c)
    /\ retErr[c] # NilErr
    /\ ~IsPermanent(retErr[c])
    /\ retErr[c] # Canceled

\* When the wait the call has begun ends: a timer started with a duration that
\* is not positive fires at once.
WaitEnds(c) == waitBegan[c] + (IF timer[c] > 0 THEN timer[c] ELSE 0)

\* C11 (as claimed): with maxElapsedTime > 0 no wait is begun whose end falls
\* after maxElapsedTime from the start of the call; the call that stops for the
\* elapsed time has not slept after its last invocation; and with
\* maxElapsedTime = 0 no call is stopped by the elapsed-time test.
C11_NoWaitPastMaxElapsedTime ==
    \A c \in Calls :
        /\ (pc[c] = "waiting" /\ client.MaxElapsedTime > 0)
             => WaitEnds(c) <= client.MaxElapsedTime
        /\ EndedByElapsedTime(c)
             => /\ client.MaxElapsedTime > 0
                /\ invocations[c] = waits[c] + 1

\* What the operation returned for the last invocation of the call.
LastResult(c) == Classify(lastOut[c])
\* The last invocation failed in a way Retry retries: by a transient failure,
\* a 429, or a 429 whose Retry-After does not parse.
LastWasRetryable(c) ==
    /\ invocations[c] >= 1
    /\ LastResult(c).err # NilErr
    /\ ~IsPermanent(LastResult(c).err)

\* C12 (as claimed): the error a call returns is never the error of a transient
\* failure nor the RetryAfter signal of a 429; a call stopped by the elapsed
\* time returns a distinct elapsed-time error.
C12_TransientErrorNeverSurfaces ==
    \A c \in Calls :
        Returned(c)
        => /\ ~(retErr[c].kind \in {"status", "transport"} /\ ~IsPermanent(retErr[c]))
           /\ retErr[c].kind # "RetryAfter"

\* C12 (amended): a call that returns right after a retryable last invocation
\* (no wait begun after it, no cancellation) was stopped by the elapsed-time
\* test, with maxElapsedTime > 0, and returns what that operation returned: its
\* transient error, RetryAfter signal or parse error, and its response. With
\* maxElapsedTime = 0 a call returns nil, a permanent error or the context's.
C12_ElapsedTimeReturnsLastError ==
    \A c \in Calls :
        /\ (Returned(c) /\ LastWasRetryable(c) /\ invocations[c] = waits[c] + 1
               /\ NotCancelledDuring(c))
             => /\ client.MaxElapsedTime > 0
                /\ retErr[c] = LastResult(c).err
                /\ retResp[c] = LastResult(c).resp
        /\ (Returned(c) /\ client.MaxElapsedTime = 0)
             => \/ retErr[c] = NilErr
                \/ IsPermanent(retErr[c])
                \/ retErr[c] = Canceled /\ cancelled[c]

\* C12's case: the elapsed time stops a call after the 429 of its second
\* invocation, and the call returns the RetryAfter signal.
C12_Witness ==
    \E c \in Calls :
        /\ Returned(c)
        /\ invocations[c] = 2
        /\ lastOut[c].resp.status = 429
        /\ IsRetryAfter(retErr[c])

\* The last invocation of the call returned a response object.
LastReturnedResponse(c) == invocations[c] >= 1 /\ lastOut[c].err = NilErr

\* C13 (as claimed): a call that ends with an error after a last invocation
\* that returned a response returns that response with the error, on every
\* failure path.
C13_LastResponseAlwaysReturned ==
    \A c \in Calls :
        (Returned(c) /\ retErr[c] # NilErr /\ LastReturnedResponse(c))
        => retResp[c] = lastOut[c].resp

\* C13 (amended): a call that ends with an error returns the response of its
\* last invocation when that response was not a 429 and the error is not
\* MaxAttemptsReached; it returns no response with MaxAttemptsReached, after a
\* 429 and after a transport error.
C13_ResponseReturnedWithError ==
    \A c \in Calls :
        (Returned(c) /\ retErr[c] # NilErr)
        => IF retErr[c].kind = "MaxAttemptsReached" THEN retResp[c] = NoResponse
           ELSE IF LastReturnedResponse(c) /\ lastOut[c].resp.status # 429
           THEN retResp[c] = lastOut[c].resp /\ retResp[c] # NoResponse
           ELSE retResp[c] = NoResponse

\* C13's case: the elapsed time stops a call after the 500 of its second
\* invocation, and the call returns that response with the status error.
C13_Witness ==
    \E c \in Calls :
        /\ EndedByElapsedTime(c)
        /\ invocations[c] = 2
        /\ retErr[c].kind = "status"
        /\ retResp[c].status = 500

\* The last invocation returned a 429 whose Retry-After is absent or is an
\* integer that is not negative.
LastWas429WithHint(c) ==
    /\ LastReturnedResponse(c)
    /\ lastOut[c].resp.status = 429
    /\ \/ lastOut[c].resp.retryAfter = NoHeader
       \/ /\ ParseInt(lastOut[c].resp.retryAfter).ok
          /\ ParseInt(lastOut[c].resp.retryAfter).val >= 0

\* The wait a 429 response asks for: its Retry-After in seconds, or the default.
HintOf(resp) ==
    IF resp.retryAfter = NoHeader THEN default429RetrySeconds * Second
    ELSE ParseInt(resp.retryAfter).val * Second

\* C14: after a 429 whose Retry-After is absent or a non-negative integer, the
\* wait that is begun is timed by the header's seconds, or by 1 second without
\* a header, not by the backoff delay; the backoff interval is back at its
\* initial value; and the next operation starts exactly that long after the
\* wait began.
C14_RateLimitWaitIsTheHint ==
    \A c \in Calls :
        (LastWas429WithHint(c) /\ pc[c] \in {"waiting", "operation", "transport"})
        => /\ waitKind[c] = "retryAfter"
           /\ timer[c] = HintOf(lastOut[c].resp)
           /\ lastOut[c].resp.retryAfter = NoHeader => timer[c] = Second
           /\ bo[c] = InitialInterval
           /\ pc[c] = "waiting" => elapsed[c] = waitBegan[c]
           /\ pc[c] # "waiting" => elapsed[c] - waitBegan[c] = timer[c]

\* C14's case: the transport is invoked again 2 seconds after a first
\* invocation that returned a 429 with Retry-After: 2.
C14_Witness ==
    \E c \in Calls :
        /\ pc[c] = "transport"
        /\ invocations[c] = 2
        /\ lastOut[c].resp.status = 429
        /\ lastOut[c].resp.retryAfter = <<"2">>
        /\ elapsed[c] - waitBegan[c] = 2 * Second

\* The call has returned MaxAttemptsReached.
EndedByMaxAttempts(c) == Returned(c) /\ retErr[c].kind = "MaxAttemptsReached"

\* C15: with a context that carries metadata and maxRetries = r >= 1, a call
\* whose invocations all failed transiently (and that neither the elapsed time
\* nor a cancellation stopped) ends with MaxAttemptsReached, and after every
\* call that ends so NumberOfAttemptsFromContext returns r + 1 and the error's
\* count is r + 1.
C15_AttemptsAtExhaustion ==
    \A c \in Calls :
        (ctxValue[c] # NoValue /\ client.MaxRetries >= 1 /\ Returned(c))
        => /\ (client.MaxElapsedTime = 0 /\ NotCancelledDuring(c) /\ AllTransient(c))
                => EndedByMaxAttempts(c)
           /\ EndedByMaxAttempts(c)
                => /\ NumberOfAttemptsFromContext(ctxValue[c])
                        = [v |-> client.MaxRetries + 1, ok |-> TRUE]
                   /\ retErr[c] = Permanent(MaxAttemptsReachedError(client.MaxRetries + 1))

\* C15's case: with maxRetries = 2 a call on a metadata context has ended with
\* MaxAttemptsReached after a transport that answered 429 each time.
C15_Witness ==
    \E c \in Calls :
        /\ ctxValue[c] # NoValue
        /\ client.MaxRetries = MaxRetriesBound
        /\ EndedByMaxAttempts(c)
        /\ lastOut[c].resp.status = 429
        /\ waitKind[c] = "retryAfter"
        /\ nTransient[c] = 0
        /\ ctxValue[c].requests = MaxRetriesBound + 1

\* C16 (as claimed): when a call has returned, on whatever path, the attempts
\* counter of its metadata is the number of transport invocations it made.
C16_CounterIsInvocationsMade ==
    \A c \in Calls :
        Returned(c) => Metadata(c).requests = invocations[c]

\* C17 (as claimed): on a context that carries metadata and is used for one
\* call after another, after every call that returned an error
\* SuccessfulRequestDurationFromContext returns a zero duration.
C17_NoDurationAfterFailedCall ==
    \A c \in Calls :
        (ctxValue[c] # NoValue /\ Returned(c) /\ retErr[c] # NilErr)
        => SuccessfulRequestDurationFromContext(ctxValue[c]) = [v |-> 0, ok |-> TRUE]

\* C18: on a context that carries metadata and is used for one call after
\* another, the counter is 0 when a call starts, and at every moment of a call
\* and after it the counter is the number of requests the operation has
\* counted in that call alone: the transport invocations made, and one more
\* when the operation has given up with MaxAttemptsReached. It therefore never
\* passes maxRetries + 1, however many calls came before.
C18_CounterCountsThisCallOnly ==
    \A c \in Calls :
        (ctxValue[c] # NoValue /\ ncalls[c] >= 1)
        => /\ NumberOfAttemptsFromContext(ctxValue[c]).v
                = invocations[c] + (IF EndedByMaxAttempts(c) THEN 1 ELSE 0)
           /\ (pc[c] = "operation" /\ waits[c] = 0)
                => NumberOfAttemptsFromContext(ctxValue[c]).v = 0
           /\ NumberOfAttemptsFromContext(ctxValue[c]).v <= client.MaxRetries + 1

\* C18's case: the second call on a metadata context has returned Success at
\* its first attempt, and the counter reads 1.
C18_Witness ==
    \E c \in Calls :
        /\ ctxValue[c] # NoValue
        /\ ncalls[c] = 2
        /\ Returned(c)
        /\ retErr[c] = NilErr
        /\ NumberOfAttemptsFromContext(ctxValue[c]) = [v |-> 1, ok |-> TRUE]

\* The call on context c is under way.
Running(c) == pc[c] \in {"operation", "transport", "waiting"}

\* C19: with maxElapsedTime = 0 every call that is under way eventually
\* returns, whatever the transport returns, given that each transport
\* invocation returns and each wait ends.
C19_EveryCallReturns ==
    \A c \in Callers : Running(c) ~> Returned(c)

\* C19's case: with maxElapsedTime = 0 and the largest maxRetries, a call has
\* returned after a transport that answered every invocation with a 429 whose
\* Retry-After is malformed.
C19_Witness ==
    \E c \in Callers :
        /\ client.MaxElapsedTime = 0
        /\ client.MaxRetries = MaxRetriesBound
        /\ EndedByMaxAttempts(c)
        /\ LastWasMalformed429(c)
        /\ waits[c] = MaxRetriesBound
        /\ nTransient[c] = 0

\* All that belongs to the call on context c: its context's metadata, its
\* request, the locals of its DoWithContext and of Retry, and its history.
CallState(c) ==
    <<ctxValue[c], cancelled[c], pc[c], metaInCtx[c], local[c], bo[c], elapsed[c],
      timer[c], res[c], retResp[c], retErr[c], invocations[c], nTransient[c],
      lastOut[c], lastDur[c], cancelledAt[c], waits[c], waitKind[c], waitBegan[c],
      ncalls[c], req[c], payload[c], offered[c]>>

\* The counter, the duration and the outcome of call c are what its own
\* transport outcomes make them, as in a call that runs alone.
AsIfAlone(c) ==
    /\ invocations[c] <= client.MaxRetries
    /\ Metadata(c).requests
         = invocations[c] + (IF EndedByMaxAttempts(c) THEN 1 ELSE 0)
    /\ Metadata(c).successfulDuration
         = (IF Returned(c) /\ retErr[c] = NilErr THEN lastDur[c] ELSE 0)
    /\ (Returned(c) /\ retErr[c] = NilErr)
         => LastWas2xx(c) /\ retResp[c] = lastOut[c].resp
    /\ (Returned(c) /\ retErr[c] # NilErr /\ ~EndedByMaxAttempts(c))
         => /\ retErr[c] = (IF ~NotCancelledDuring(c) /\ LastWasRetryable(c) THEN Canceled
                            ELSE LastResult(c).err)
            /\ retResp[c] = LastResult(c).resp
    /\ EndedByMaxAttempts(c) => invocations[c] = client.MaxRetries
    /\ pc[c] = "waiting"
         => /\ bo[c] = (IF IsRetryAfter(LastResult(c).err) THEN InitialInterval
                        ELSE IF waitKind[c] = "backoff" /\ waits[c] = 1
                        THEN IncrementCurrentInterval(InitialInterval, client.MaxInterval)
                        ELSE bo[c])
            /\ waitBegan[c] = elapsed[c]

\* C20: with two calls under way at once on one client, every step is a step
\* of one call that leaves everything of the other call as it was and does not
\* write the client's fields, and each call's counter, duration, invocations
\* and outcome stay what its own transport outcomes make them.
C20_CallsDoNotInterfere ==
    [][/\ client' = client
       /\ \E c \in Calls : \A d \in Calls \ {c} : CallState(d)' = CallState(d)
       /\ \A c \in Calls : AsIfAlone(c)']_vars

\* C20's case: both calls are under way, one in its backoff wait after a
\* failed invocation and the other in its invocation of the transport, with
\* different backoff intervals and different counts of waits.
C20_Witness ==
    \E c, d \in Calls :
        /\ c # d
        /\ pc[c] = "waiting" /\ invocations[c] = 1 /\ waitKind[c] = "backoff"
        /\ pc[d] = "transport" /\ invocations[d] = 1 /\ waits[d] = 0
        /\ bo[c] # bo[d]

====
